---- MODULE Spec2Model ----
(***************************************************************************)
(* blenderseed: instance / particle enumeration with motion-blur sampling  *)
(* (src/util.py) and the object translators (src/translators/object.py).   *)
(*                                                                         *)
(* Spec           : get_instances / sample_mblur / get_psys_instances /    *)
(*                  sample_psys_mblur run against a host scene.            *)
(* SpecTranslator : InstanceTranslator / ArchiveTranslator life cycle.     *)
(* SpecOsl        : get_osl_search_paths / get_appleseed_parent_dir /      *)
(*                  read_osl_shaders over a configured binary directory.   *)
(* SpecFov        : calc_fov.                                              *)
(* SpecTimer      : Timer.start / stop / elapsed.                          *)
(* SpecPyPath     : load_appleseed_python_paths then                       *)
(*                  unload_appleseed_python_paths.                         *)
(***************************************************************************)
EXTENDS Integers, Sequences, FiniteSets, TLC

(* ------------------------------ bounds --------------------------------- *)

\* Subframe positions per frame: a shutter value s stands for s / SubDiv.
SubDiv == 2
\* Longest dupli list the host generates for a dupli-face / dupli-vert parent.
MaxDuplis == 2
\* Most modifiers on a particle-system object.
MaxModifiers == 3
\* Most particles in one particle system.
MaxParticles == 2
\* Frames the export may start from: 1 .. MaxFrame.
MaxFrame == 1

VARIABLES
    \* host scene
    scn,             \* the scene and object settings, fixed during one call
    frame_current,   \* scene.frame_current
    frame_subframe,  \* scene.frame_subframe, in 1/SubDiv units
    dupli_state,     \* "cleared" | "created": the host's transient dupli list
    dupli_list,      \* ob.dupli_list
    \* control
    fn,              \* the entry point that was called
    pc,              \* position in the running function
    err,             \* "" or the exception that ended the call
    result,          \* value returned by the entry point
    \* locals of get_instances / sample_mblur
    matrices,
    frame_orig,
    \* locals of get_psys_instances / sample_psys_mblur
    all_duplis,
    current_total,
    start,
    index,
    new_index,
    mod_i,
    particles,
    duplis,
    dupli_dict,
    pending,
    \* history
    entry,           \* host time when the running sample function was entered
    calls,           \* host calls made so far, each with the host time it saw
    \* object translators
    tr,              \* the translator: kind, _xform_seq, _num_instances, handle
    bl_obj,          \* the host object: matrix_world
    assembly,        \* the target assembly: assemblies, assembly_instances
    detached,        \* transform sequence of an entity no assembly holds
    asr_calls,       \* renderer binding calls made by flush_entities
    xl_hist,         \* the latest translator call: op, arg, outcome
    \* add-on environment (src/util.py)
    prefs,           \* preferences.appleseed_binary_directory as typed
    environ,         \* os.environ: APPLESEED_PYTHON_PATH and PATH
    platform_system, \* platform.system()
    sys_path,        \* sys.path
    shader_fs,       \* the shader directories on disk
    ufn,             \* the utility function that was called
    upc,             \* position in it
    uresult,         \* its return value
    ulog,            \* warnings, imports and file opens it made
    appleseed_parent_dir,  \* local of the upward walk
    nodes,           \* local of read_osl_shaders
    dir_i,           \* shader directory read_osl_shaders is at
    saved,           \* sys.path and PATH before load_appleseed_python_paths
    python_path,     \* local of load/unload_appleseed_python_paths
    \* Timer
    timer,           \* __start and __end
    clock,           \* datetime.datetime.now()
    timer_hist,      \* the calls made on the timer
    secs,            \* what the latest elapsed() returned
    \* calc_fov
    camera,          \* camera_ob.data.angle, width, height
    fov              \* the value calc_fov returned

hostVars == <<scn, frame_current, frame_subframe, dupli_state, dupli_list>>
ctlVars == <<fn, pc, err, result>>
smVars == <<matrices, frame_orig>>
gpVars == <<all_duplis, current_total, start, index, mod_i>>
psmVars == <<new_index, particles, duplis, dupli_dict, pending>>
histVars == <<entry, calls>>
instVars == <<hostVars, ctlVars, smVars, gpVars, psmVars, histVars>>
xlVars == <<tr, bl_obj, assembly, detached, asr_calls, xl_hist>>
envVars == <<prefs, environ, platform_system, sys_path, shader_fs>>
uctlVars == <<ufn, upc, uresult, ulog, appleseed_parent_dir, nodes, dir_i, saved,
              python_path>>
timerVars == <<timer, clock, timer_hist, secs>>
fovVars == <<camera, fov>>
utilVars == <<envVars, uctlVars, timerVars, fovVars>>
vars == <<instVars, xlVars, utilVars>>

(* ------------------------------ helpers -------------------------------- *)

Min(a, b) == IF a < b THEN a ELSE b

\* dict.update(): the entries of b replace or extend those of a.
DictUpdate(a, b) ==
    [k \in (DOMAIN a) \cup (DOMAIN b) |-> IF k \in DOMAIN b THEN b[k] ELSE a[k]]

EmptyDict == [k \in {} |-> 0]

(* ------------------------------ host scene ----------------------------- *)

\* Host time in 1/SubDiv units.
HostTime == frame_current * SubDiv + frame_subframe

\* object.appleseed / scene.appleseed motion blur switches.
ob_mblur_enabled(s) ==
    /\ s.ob_enable_motion_blur
    /\ s.ob_motion_blur_type = "object"
    /\ s.scn_enable_motion_blur
    /\ s.scn_enable_object_blur

\* Motion blur switch settings: all on, and each single switch off.
MblurFlags ==
    LET on == [ob_enable_motion_blur |-> TRUE, ob_motion_blur_type |-> "object",
               scn_enable_motion_blur |-> TRUE, scn_enable_object_blur |-> TRUE]
    IN { on,
         [on EXCEPT !.ob_enable_motion_blur = FALSE],
         [on EXCEPT !.ob_motion_blur_type = "deformation"],
         [on EXCEPT !.scn_enable_motion_blur = FALSE],
         [on EXCEPT !.scn_enable_object_blur = FALSE] }

\* The switch settings tried on particle-system objects: on, and off.
PsysMblurFlags ==
    { fl \in MblurFlags : fl.ob_enable_motion_blur /\ fl.scn_enable_object_blur
                            /\ fl.ob_motion_blur_type = "object" }

\* [p for p in psys.particles if p.alive_state == 'ALIVE'] for an emitter,
\* [p for p in psys.particles] otherwise: positions in psys.particles.
SelectParticles(psys) ==
    IF psys.type_psys = "EMITTER"
    THEN SelectSeq([i \in 1..Len(psys.particles) |-> i],
                   LAMBDA i : psys.particles[i] = "ALIVE")
    ELSE [i \in 1..Len(psys.particles) |-> i]

\* modifier.type == 'PARTICLE_SYSTEM' and modifier.show_render, and
\* psys.settings.render_type in {'OBJECT', 'GROUP'}.
IsRendered(mod) ==
    /\ mod.type = "PARTICLE_SYSTEM"
    /\ mod.show_render
    /\ mod.render_type \in {"OBJECT", "GROUP"}

\* The host's dupli entries of modifier k at host time t: one per selected
\* particle of a rendered particle system.
ModDuplis(s, k, base, t) ==
    LET mod == s.modifiers[k]
        n == IF IsRendered(mod) THEN Len(SelectParticles(mod)) ELSE 0
    IN [i \in 1..n |-> [object |-> k,
                        matrix |-> [src |-> "dupli", idx |-> base + i - 1, t |-> t]]]

RECURSIVE PsysDuplis(_, _, _)
PsysDuplis(s, k, t) ==
    IF k = 0 THEN << >>
    ELSE LET before == PsysDuplis(s, k - 1, t)
         IN before \o ModDuplis(s, k, Len(before), t)

\* What ob.dupli_list_create(scene) generates at host time t.  A dupli-face /
\* dupli-vert parent has s.dupli_len[offset] entries, offset being the
\* distance of t from the frame the export started at.
HostDupliList(s, t) ==
    IF s.kind = "dupli"
    THEN LET off == t - s.frame0 * SubDiv
             n == IF off \in DOMAIN s.dupli_len THEN s.dupli_len[off] ELSE 0
         IN [i \in 1..n |-> [object |-> ((i - 1) % 2) + 1,
                             matrix |-> [src |-> "dupli", idx |-> i - 1, t |-> t]]]
    ELSE PsysDuplis(s, Len(s.modifiers), t)

\* scene.frame_set(frame, subframe=s): frame + s / SubDiv split into the
\* integer frame and the fraction.
frame_set(frame, s) ==
    /\ frame_current' = frame + (s \div SubDiv)
    /\ frame_subframe' = s % SubDiv

\* ob.dupli_list_create(scene)
dupli_list_create ==
    /\ dupli_state' = "created"
    /\ dupli_list' = HostDupliList(scn, HostTime)

\* ob.dupli_list_clear()
dupli_list_clear ==
    /\ dupli_state' = "cleared"
    /\ dupli_list' = << >>

\* One host call appended to the history.
Logged(op) == calls' = Append(calls, [op |-> op, t |-> HostTime, st |-> dupli_state])

\* dupli.matrix.copy()
MatrixCopy(m) == m

(* ---------------------- get_instances / sample_mblur ------------------- *)

\* get_instances: entry, branch on ob_mblur_enabled.
gi_start ==
    /\ pc = "idle"
    /\ scn.kind = "dupli"
    /\ IF ob_mblur_enabled(scn)
       THEN /\ pc' = "sm_open_set"
            /\ frame_orig' = frame_current
            /\ entry' = [fn |-> "sample_mblur", t |-> HostTime]
       ELSE /\ pc' = "gi_create"
            /\ UNCHANGED <<frame_orig, entry>>
    /\ matrices' = << >>
    /\ fn' = "get_instances"
    /\ UNCHANGED <<hostVars, err, result, gpVars, psmVars, calls, xlVars, utilVars>>

gi_create ==
    /\ pc = "gi_create"
    /\ dupli_list_create
    /\ Logged("create")
    /\ pc' = "gi_read"
    /\ UNCHANGED <<scn, frame_current, frame_subframe, fn, err, result, smVars,
                   gpVars, psmVars, entry, xlVars, utilVars>>

\* for dupli in obj_parent.dupli_list: append [dupli.object, dupli.matrix.copy()]
gi_read ==
    /\ pc = "gi_read"
    /\ matrices' = [m \in 1..Len(dupli_list) |->
                      [object |-> dupli_list[m].object,
                       matrix |-> MatrixCopy(dupli_list[m].matrix)]]
    /\ Logged("read")
    /\ pc' = "gi_clear"
    /\ UNCHANGED <<hostVars, fn, err, result, frame_orig, gpVars, psmVars, entry, xlVars, utilVars>>

gi_clear ==
    /\ pc = "gi_clear"
    /\ dupli_list_clear
    /\ Logged("clear")
    /\ pc' = "gi_ret"
    /\ UNCHANGED <<scn, frame_current, frame_subframe, fn, err, result, smVars,
                   gpVars, psmVars, entry, xlVars, utilVars>>

\* return dupli_list
gi_ret ==
    /\ pc \in {"gi_ret", "sm_ret"}
    /\ result' = matrices
    /\ pc' = "done"
    /\ UNCHANGED <<hostVars, fn, err, smVars, gpVars, psmVars, histVars, xlVars, utilVars>>

\* frame_set(frame_orig, subframe=asr_scn.shutter_open)
sm_open_set ==
    /\ pc = "sm_open_set"
    /\ frame_set(frame_orig, scn.shutter_open)
    /\ Logged("frame_set")
    /\ pc' = "sm_open_create"
    /\ UNCHANGED <<scn, dupli_state, dupli_list, fn, err, result, smVars, gpVars,
                   psmVars, entry, xlVars, utilVars>>

sm_open_create ==
    /\ pc = "sm_open_create"
    /\ dupli_list_create
    /\ Logged("create")
    /\ pc' = "sm_open_read"
    /\ UNCHANGED <<scn, frame_current, frame_subframe, fn, err, result, smVars,
                   gpVars, psmVars, entry, xlVars, utilVars>>

\* for dupli in ob.dupli_list: matrices.append([dupli.object, [dupli.matrix.copy(), ]])
sm_open_read ==
    /\ pc = "sm_open_read"
    /\ matrices' = [m \in 1..Len(dupli_list) |->
                      [object |-> dupli_list[m].object,
                       matrices |-> <<MatrixCopy(dupli_list[m].matrix)>>]]
    /\ Logged("read")
    /\ pc' = "sm_open_clear"
    /\ UNCHANGED <<hostVars, fn, err, result, frame_orig, gpVars, psmVars, entry, xlVars, utilVars>>

sm_open_clear ==
    /\ pc = "sm_open_clear"
    /\ dupli_list_clear
    /\ Logged("clear")
    /\ pc' = "sm_close_set"
    /\ UNCHANGED <<scn, frame_current, frame_subframe, fn, err, result, smVars,
                   gpVars, psmVars, entry, xlVars, utilVars>>

\* frame_set(frame_orig, subframe=asr_scn.shutter_close)
sm_close_set ==
    /\ pc = "sm_close_set"
    /\ frame_set(frame_orig, scn.shutter_close)
    /\ Logged("frame_set")
    /\ pc' = "sm_close_create"
    /\ UNCHANGED <<scn, dupli_state, dupli_list, fn, err, result, smVars, gpVars,
                   psmVars, entry, xlVars, utilVars>>

sm_close_create ==
    /\ pc = "sm_close_create"
    /\ dupli_list_create
    /\ Logged("create")
    /\ pc' = "sm_close_read"
    /\ UNCHANGED <<scn, frame_current, frame_subframe, fn, err, result, smVars,
                   gpVars, psmVars, entry, xlVars, utilVars>>

\* for m in range(0, len(ob.dupli_list)):
\*     matrices[m][1].append(ob.dupli_list[m].matrix.copy())
\* matrices[m] raises IndexError once m reaches len(matrices).
sm_close_read ==
    /\ pc = "sm_close_read"
    /\ LET n == Min(Len(dupli_list), Len(matrices))
       IN matrices' = [m \in 1..Len(matrices) |->
                         IF m <= n
                         THEN [matrices[m] EXCEPT !.matrices =
                                  Append(@, MatrixCopy(dupli_list[m].matrix))]
                         ELSE matrices[m]]
    /\ Logged("read")
    /\ IF Len(dupli_list) > Len(matrices)
       THEN pc' = "raised" /\ err' = "IndexError"
       ELSE pc' = "sm_close_clear" /\ err' = err
    /\ UNCHANGED <<hostVars, fn, result, frame_orig, gpVars, psmVars, entry, xlVars, utilVars>>

sm_close_clear ==
    /\ pc = "sm_close_clear"
    /\ dupli_list_clear
    /\ Logged("clear")
    /\ pc' = "sm_reset"
    /\ UNCHANGED <<scn, frame_current, frame_subframe, fn, err, result, smVars,
                   gpVars, psmVars, entry, xlVars, utilVars>>

\* frame_set(frame_orig); return matrices
sm_reset ==
    /\ pc = "sm_reset"
    /\ frame_set(frame_orig, 0)
    /\ Logged("frame_set")
    /\ pc' = "sm_ret"
    /\ UNCHANGED <<scn, dupli_state, dupli_list, fn, err, result, smVars, gpVars,
                   psmVars, entry, xlVars, utilVars>>


(* ------------------ get_psys_instances / sample_psys_mblur ------------- *)

\* The matrix the code builds for an emitter particle: translation by
\* particle.location times the scale by particle.size * dupli object scale,
\* both read from particle p of modifier k at host time t.
ParticleMatrix(k, p, t) == [src |-> "particle", mod |-> k, p |-> p, t |-> t]

\* list(zip(particles, duplis)) as {particle: [dupli.object, []]}.
ZipDict(k, parts, objs) ==
    LET n == Min(Len(parts), Len(objs))
    IN [key \in {<<k, parts[i]>> : i \in 1..n} |->
          [object |-> objs[CHOOSE i \in 1..n : parts[i] = key[2]],
           matrices |-> << >>]]

\* The i-th key of dupli_dict in insertion order.
DictKey(k, parts, i) == <<k, parts[i]>>

\* get_psys_instances: entry, hasattr(ob, 'modifiers'), first dupli_list_create.
gp_start ==
    /\ pc = "idle"
    /\ all_duplis' = EmptyDict
    /\ current_total' = 0
    /\ index' = 0
    /\ mod_i' = 1
    /\ start' = 0
    /\ IF ~scn.has_modifiers
       THEN pc' = "done" /\ result' = EmptyDict
       ELSE /\ result' = result
            /\ pc' = IF ~ob_mblur_enabled(scn) THEN "gp_create" ELSE "gp_loop"
    /\ fn' = "get_psys_instances"
    /\ UNCHANGED <<hostVars, err, smVars, psmVars, histVars, xlVars, utilVars>>

\* ob.dupli_list_create(scene, settings='RENDER')
gp_create ==
    /\ pc = "gp_create"
    /\ dupli_list_create
    /\ Logged("create")
    /\ pc' = "gp_loop"
    /\ UNCHANGED <<scn, frame_current, frame_subframe, fn, err, result, smVars,
                   gpVars, psmVars, entry, xlVars, utilVars>>

\* A modifier that is no rendered OBJECT / GROUP particle system is passed over.
gp_skip ==
    /\ pc = "gp_loop"
    /\ mod_i <= Len(scn.modifiers)
    /\ ~IsRendered(scn.modifiers[mod_i])
    /\ mod_i' = mod_i + 1
    /\ UNCHANGED <<hostVars, ctlVars, smVars, all_duplis, current_total, start,
                   index, psmVars, histVars, xlVars, utilVars>>

\* particles, start, current_total of a rendered system; with motion blur
\* the call of sample_psys_mblur (frame_orig = scene.frame_current).
gp_select ==
    /\ pc = "gp_loop"
    /\ mod_i <= Len(scn.modifiers)
    /\ IsRendered(scn.modifiers[mod_i])
    /\ particles' = SelectParticles(scn.modifiers[mod_i])
    /\ start' = current_total
    /\ current_total' = current_total + Len(particles')
    /\ IF ~ob_mblur_enabled(scn)
       THEN /\ pc' = "gp_static"
            /\ UNCHANGED <<frame_orig, entry>>
       ELSE /\ pc' = "psm_open_set"
            /\ frame_orig' = frame_current
            /\ entry' = [fn |-> "sample_psys_mblur", t |-> HostTime]
    /\ UNCHANGED <<hostVars, fn, err, result, matrices, all_duplis, index, mod_i,
                   new_index, duplis, dupli_dict, pending, calls, xlVars, utilVars>>

\* No motion blur: duplis from ob.dupli_list[start:current_total], then the
\* emitter matrices from the particles, or for hair the zip of particles,
\* duplis and the matrices of the whole list.
gp_static ==
    /\ pc = "gp_static"
    /\ Logged("read")
    /\ IF current_total > Len(dupli_list)
       THEN /\ pc' = "raised"
            /\ err' = "IndexError"
            /\ UNCHANGED <<duplis, dupli_dict, all_duplis, mod_i>>
       ELSE /\ duplis' = [i \in 1..(current_total - start) |->
                            dupli_list[start + i].object]
            /\ dupli_dict' =
                 IF scn.modifiers[mod_i].type_psys = "EMITTER"
                 THEN [key \in DOMAIN ZipDict(mod_i, particles, duplis') |->
                         [ZipDict(mod_i, particles, duplis')[key] EXCEPT
                            !.matrices = <<ParticleMatrix(mod_i, key[2], HostTime)>>]]
                 ELSE LET n == Min(Min(Len(particles), Len(duplis')), Len(dupli_list))
                      IN [key \in {DictKey(mod_i, particles, i) : i \in 1..n} |->
                            LET i == CHOOSE j \in 1..n : particles[j] = key[2]
                            IN [object |-> duplis'[i],
                                matrices |-> <<MatrixCopy(dupli_list[i].matrix)>>]]
            /\ all_duplis' = DictUpdate(all_duplis, dupli_dict')
            /\ mod_i' = mod_i + 1
            /\ pc' = "gp_loop"
            /\ err' = err
    /\ UNCHANGED <<hostVars, fn, result, smVars, current_total, start, index,
                   new_index, particles, pending, entry, xlVars, utilVars>>

\* End of the modifier loop.
gp_end ==
    /\ pc = "gp_loop"
    /\ mod_i > Len(scn.modifiers)
    /\ pc' = IF ~ob_mblur_enabled(scn) THEN "gp_clear" ELSE "gp_ret"
    /\ UNCHANGED <<hostVars, fn, err, result, smVars, gpVars, psmVars, histVars, xlVars, utilVars>>

gp_clear ==
    /\ pc = "gp_clear"
    /\ dupli_list_clear
    /\ Logged("clear")
    /\ pc' = "gp_ret"
    /\ UNCHANGED <<scn, frame_current, frame_subframe, fn, err, result, smVars,
                   gpVars, psmVars, entry, xlVars, utilVars>>

\* return all_duplis
gp_ret ==
    /\ pc = "gp_ret"
    /\ result' = all_duplis
    /\ pc' = "done"
    /\ UNCHANGED <<hostVars, fn, err, smVars, gpVars, psmVars, histVars, xlVars, utilVars>>

\* sample_psys_mblur: frame_set(frame_orig, subframe=shutter_open), the
\* particles, and the early return when there are none.
psm_open_set ==
    /\ pc = "psm_open_set"
    /\ frame_set(frame_orig, scn.shutter_open)
    /\ Logged("frame_set")
    /\ dupli_dict' = EmptyDict
    /\ particles' = SelectParticles(scn.modifiers[mod_i])
    /\ pc' = IF Len(particles') = 0 THEN "psm_ret_false"
             ELSE IF scn.modifiers[mod_i].type_psys = "EMITTER"
                  THEN "psm_emit_create" ELSE "psm_hair_create"
    /\ UNCHANGED <<scn, dupli_state, dupli_list, fn, err, result, smVars, gpVars,
                   new_index, duplis, pending, entry, xlVars, utilVars>>

\* return False, which the caller's  dupli_dict, index = ...  cannot unpack.
psm_ret_false ==
    /\ pc = "psm_ret_false"
    /\ pc' = "raised"
    /\ err' = "TypeError"
    /\ UNCHANGED <<hostVars, fn, result, smVars, gpVars, psmVars, histVars, xlVars, utilVars>>

psm_emit_create ==
    /\ pc = "psm_emit_create"
    /\ dupli_list_create
    /\ Logged("create")
    /\ pc' = "psm_emit_read"
    /\ UNCHANGED <<scn, frame_current, frame_subframe, fn, err, result, smVars,
                   gpVars, psmVars, entry, xlVars, utilVars>>

\* duplis = [dupli.object for dupli in ob.dupli_list]; dupli_dict; new_index
psm_emit_read ==
    /\ pc = "psm_emit_read"
    /\ Logged("read")
    /\ duplis' = [i \in 1..Len(dupli_list) |-> dupli_list[i].object]
    /\ dupli_dict' = ZipDict(mod_i, particles, duplis')
    /\ new_index' = index
    /\ pending' = {scn.shutter_open, scn.shutter_close}
    /\ pc' = "psm_emit_frame"
    /\ UNCHANGED <<hostVars, fn, err, result, smVars, gpVars, particles, entry, xlVars, utilVars>>

\* One pass of  for frame in {shutter_open, shutter_close}  (a set: equal
\* values are one element, and the order is the set's own).
psm_emit_frame ==
    /\ pc = "psm_emit_frame"
    /\ \E frame \in pending :
         /\ pending' = pending \ {frame}
         /\ frame_set(frame_orig, frame)
         /\ dupli_dict' = [key \in DOMAIN dupli_dict |->
                             [dupli_dict[key] EXCEPT !.matrices =
                                Append(@, ParticleMatrix(key[1], key[2],
                                                         frame_orig * SubDiv + frame))]]
    /\ new_index' = index + Cardinality(DOMAIN dupli_dict)
    /\ Logged("frame_set")
    /\ UNCHANGED <<scn, dupli_state, dupli_list, ctlVars, smVars, gpVars,
                   particles, duplis, entry, xlVars, utilVars>>

\* index += new_index; ... ob.dupli_list_clear()
psm_emit_clear ==
    /\ pc = "psm_emit_frame"
    /\ pending = {}
    /\ index' = index + new_index
    /\ dupli_list_clear
    /\ Logged("clear")
    /\ pc' = "psm_reset"
    /\ UNCHANGED <<scn, frame_current, frame_subframe, fn, err, result, smVars,
                   all_duplis, current_total, start, mod_i, psmVars, entry, xlVars, utilVars>>

psm_hair_create ==
    /\ pc = "psm_hair_create"
    /\ dupli_list_create
    /\ Logged("create")
    /\ pc' = "psm_hair_read"
    /\ UNCHANGED <<scn, frame_current, frame_subframe, fn, err, result, smVars,
                   gpVars, psmVars, entry, xlVars, utilVars>>

\* duplis from ob.dupli_list[start:current_total]; dupli_dict
psm_hair_read ==
    /\ pc = "psm_hair_read"
    /\ Logged("read")
    /\ IF current_total > Len(dupli_list)
       THEN /\ pc' = "raised"
            /\ err' = "IndexError"
            /\ UNCHANGED <<duplis, dupli_dict>>
       ELSE /\ duplis' = [i \in 1..(current_total - start) |->
                            dupli_list[start + i].object]
            /\ dupli_dict' = ZipDict(mod_i, particles, duplis')
            /\ pc' = "psm_hair_clear"
            /\ err' = err
    /\ UNCHANGED <<hostVars, fn, result, smVars, gpVars, new_index, particles,
                   pending, entry, xlVars, utilVars>>

\* ob.dupli_list_clear(); new_index = index
psm_hair_clear ==
    /\ pc = "psm_hair_clear"
    /\ dupli_list_clear
    /\ Logged("clear")
    /\ new_index' = index
    /\ pending' = {scn.shutter_open, scn.shutter_close}
    /\ pc' = "psm_hair_fset"
    /\ UNCHANGED <<scn, frame_current, frame_subframe, fn, err, result, smVars,
                   gpVars, particles, duplis, dupli_dict, entry, xlVars, utilVars>>

\* for frame in {shutter_open, shutter_close}: new_index = index; frame_set(...)
psm_hair_fset ==
    /\ pc = "psm_hair_fset"
    /\ \E frame \in pending :
         /\ pending' = pending \ {frame}
         /\ frame_set(frame_orig, frame)
    /\ new_index' = index
    /\ Logged("frame_set")
    /\ pc' = "psm_hair_fcreate"
    /\ UNCHANGED <<scn, dupli_state, dupli_list, fn, err, result, smVars, gpVars,
                   particles, duplis, dupli_dict, entry, xlVars, utilVars>>

psm_hair_fcreate ==
    /\ pc = "psm_hair_fcreate"
    /\ dupli_list_create
    /\ Logged("create")
    /\ pc' = "psm_hair_fread"
    /\ UNCHANGED <<scn, frame_current, frame_subframe, fn, err, result, smVars,
                   gpVars, psmVars, entry, xlVars, utilVars>>

\* for particle in dupli_dict.keys():
\*     mat = ob.dupli_list[new_index].matrix.copy(); append; new_index += 1
\* ob.dupli_list[new_index] raises IndexError past the end of the list.
psm_hair_fread ==
    /\ pc = "psm_hair_fread"
    /\ Logged("read")
    /\ LET n == Cardinality(DOMAIN dupli_dict)
           ok == Min(n, IF Len(dupli_list) > index THEN Len(dupli_list) - index ELSE 0)
           pos(key) == CHOOSE i \in 1..n : DictKey(mod_i, particles, i) = key
       IN /\ dupli_dict' = [key \in DOMAIN dupli_dict |->
                              IF pos(key) <= ok
                              THEN [dupli_dict[key] EXCEPT !.matrices =
                                      Append(@, MatrixCopy(
                                                  dupli_list[index + pos(key)].matrix))]
                              ELSE dupli_dict[key]]
          /\ new_index' = index + ok
          /\ IF ok < n
             THEN pc' = "raised" /\ err' = "IndexError"
             ELSE pc' = "psm_hair_fclear" /\ err' = err
    /\ UNCHANGED <<hostVars, fn, result, smVars, gpVars, particles, duplis, pending,
                   entry, xlVars, utilVars>>

\* ob.dupli_list_clear(); after the last pass  index += new_index
psm_hair_fclear ==
    /\ pc = "psm_hair_fclear"
    /\ dupli_list_clear
    /\ Logged("clear")
    /\ IF pending = {}
       THEN index' = index + new_index /\ pc' = "psm_reset"
       ELSE index' = index /\ pc' = "psm_hair_fset"
    /\ UNCHANGED <<scn, frame_current, frame_subframe, fn, err, result, smVars,
                   all_duplis, current_total, start, mod_i, psmVars, entry, xlVars, utilVars>>

\* frame_set(frame_orig)
psm_reset ==
    /\ pc = "psm_reset"
    /\ frame_set(frame_orig, 0)
    /\ Logged("frame_set")
    /\ pc' = "psm_ret"
    /\ UNCHANGED <<scn, dupli_state, dupli_list, fn, err, result, smVars, gpVars,
                   psmVars, entry, xlVars, utilVars>>

\* return dupli_dict, index; the caller's all_duplis.update(dupli_dict)
psm_ret ==
    /\ pc = "psm_ret"
    /\ all_duplis' = DictUpdate(all_duplis, dupli_dict)
    /\ mod_i' = mod_i + 1
    /\ pc' = "gp_loop"
    /\ UNCHANGED <<hostVars, fn, err, result, smVars, current_total, start, index,
                   psmVars, histVars, xlVars, utilVars>>

(* ------------------------------ specification -------------------------- *)

DupliScenes ==
    { [kind |-> "dupli", has_modifiers |-> hm, modifiers |-> << >>,
       dupli_len |-> dl, frame0 |-> f, shutter_open |-> so, shutter_close |-> sc,
       ob_enable_motion_blur |-> fl.ob_enable_motion_blur,
       ob_motion_blur_type |-> fl.ob_motion_blur_type,
       scn_enable_motion_blur |-> fl.scn_enable_motion_blur,
       scn_enable_object_blur |-> fl.scn_enable_object_blur] :
         hm \in BOOLEAN, dl \in [0..SubDiv -> 0..MaxDuplis], f \in 1..MaxFrame,
         so \in 0..SubDiv, sc \in 0..SubDiv, fl \in MblurFlags }

\* Sequences over S of length 0 .. n.
SeqsUpTo(S, n) == UNION { [1..k -> S] : k \in 0..n }

\* The modifiers an object may carry: one that is no particle system, a
\* particle system hidden from render, a PATH-rendered hair system, and
\* rendered emitter and hair systems with their particles.
Modifiers ==
    { [type |-> "SUBSURF", show_render |-> TRUE, render_type |-> "NONE",
       type_psys |-> "EMITTER", particles |-> << >>],
      [type |-> "PARTICLE_SYSTEM", show_render |-> FALSE, render_type |-> "OBJECT",
       type_psys |-> "EMITTER", particles |-> <<"ALIVE">>],
      [type |-> "PARTICLE_SYSTEM", show_render |-> TRUE, render_type |-> "PATH",
       type_psys |-> "HAIR", particles |-> <<"ALIVE">>] }
    \cup
    { [type |-> "PARTICLE_SYSTEM", show_render |-> TRUE, render_type |-> "OBJECT",
       type_psys |-> "EMITTER", particles |-> ps] :
         ps \in SeqsUpTo({"ALIVE", "DEAD"}, MaxParticles) }
    \cup
    { [type |-> "PARTICLE_SYSTEM", show_render |-> TRUE, render_type |-> "GROUP",
       type_psys |-> "HAIR", particles |-> ps] :
         ps \in SeqsUpTo({"ALIVE"}, MaxParticles) }

PsysScenes ==
    { [kind |-> "psys", has_modifiers |-> TRUE, modifiers |-> ms,
       dupli_len |-> [o \in 0..SubDiv |-> 0], frame0 |-> f,
       shutter_open |-> so, shutter_close |-> sc,
       ob_enable_motion_blur |-> fl.ob_enable_motion_blur,
       ob_motion_blur_type |-> fl.ob_motion_blur_type,
       scn_enable_motion_blur |-> fl.scn_enable_motion_blur,
       scn_enable_object_blur |-> fl.scn_enable_object_blur] :
         ms \in SeqsUpTo(Modifiers, MaxModifiers), f \in 1..MaxFrame,
         so \in 0..SubDiv, sc \in 0..SubDiv, fl \in PsysMblurFlags }

\* ---------------------------------------------------------------------
\* The add-on's utility layer (src/util.py): rest values.
\* A path is its list of components; abs tells "/a/b" from "a/b", and the
\* empty string is the relative path with no component.
EmptyPath == [abs |-> FALSE, parts |-> << >>]

ShaderDirNames == <<"appleseed", "blenderseed">>

EnvIdle ==
    /\ prefs = EmptyPath
    /\ environ = [has_python_path |-> FALSE, APPLESEED_PYTHON_PATH |-> EmptyPath,
                  PATH |-> << >>]
    /\ platform_system = "Linux"
    /\ sys_path = << >>
    /\ shader_fs = [d \in {"appleseed", "blenderseed"} |->
                      [isdir |-> FALSE, files |-> << >>]]

UctlIdle ==
    /\ ufn = ""
    /\ ulog = << >>
    /\ uresult = [kind |-> "none"]
    /\ appleseed_parent_dir = EmptyPath
    /\ nodes = << >>
    /\ dir_i = 1
    /\ saved = [sys_path |-> << >>, PATH |-> << >>]
    /\ python_path = EmptyPath

TimerIdle ==
    /\ timer = [has_start |-> FALSE, start |-> 0, has_end |-> FALSE, end |-> 0]
    /\ clock = 0
    /\ timer_hist = << >>
    /\ secs = [kind |-> "none", value |-> 0]

FovIdle ==
    /\ camera = [angle |-> [half_tan |-> <<1, 1>>], width |-> 1, height |-> 1]
    /\ fov = [kind |-> "none"]

UtilIdle ==
    /\ EnvIdle
    /\ UctlIdle
    /\ upc = "off"
    /\ TimerIdle
    /\ FovIdle

XlIdle ==
    /\ tr = [kind |-> "none"]
    /\ bl_obj = [matrix_world |-> 0]
    /\ assembly = [assemblies |-> << >>, assembly_instances |-> << >>]
    /\ detached = << >>
    /\ asr_calls = << >>
    /\ xl_hist = [op |-> "", arg |-> 0, outcome |-> "", keys |-> {}, only_keys |-> FALSE]

Init ==
    /\ scn \in DupliScenes \cup PsysScenes
    /\ frame_current = scn.frame0
    /\ frame_subframe = 0
    /\ dupli_state = "cleared"
    /\ dupli_list = << >>
    /\ fn = ""
    /\ pc = "idle"
    /\ err = ""
    /\ result = << >>
    /\ matrices = << >>
    /\ frame_orig = 0
    /\ all_duplis = EmptyDict
    /\ current_total = 0
    /\ start = 0
    /\ index = 0
    /\ new_index = 0
    /\ mod_i = 1
    /\ particles = << >>
    /\ duplis = << >>
    /\ dupli_dict = EmptyDict
    /\ pending = {}
    /\ entry = [fn |-> "", t |-> 0]
    /\ calls = << >>
    /\ XlIdle
    /\ UtilIdle

Next ==
    \/ gi_start
    \/ gi_create
    \/ gi_read
    \/ gi_clear
    \/ gi_ret
    \/ sm_open_set
    \/ sm_open_create
    \/ sm_open_read
    \/ sm_open_clear
    \/ sm_close_set
    \/ sm_close_create
    \/ sm_close_read
    \/ sm_close_clear
    \/ sm_reset
    \/ gp_start
    \/ gp_create
    \/ gp_skip
    \/ gp_select
    \/ gp_static
    \/ gp_end
    \/ gp_clear
    \/ gp_ret
    \/ psm_open_set
    \/ psm_ret_false
    \/ psm_emit_create
    \/ psm_emit_read
    \/ psm_emit_frame
    \/ psm_emit_clear
    \/ psm_hair_create
    \/ psm_hair_read
    \/ psm_hair_clear
    \/ psm_hair_fset
    \/ psm_hair_fcreate
    \/ psm_hair_fread
    \/ psm_hair_fclear
    \/ psm_reset
    \/ psm_ret

Spec == Init /\ [][Next]_vars

(* ------------------- claims: instance enumeration ---------------------- *)

\* Host time of the frame the export started at.
T0 == scn.frame0 * SubDiv

\* Matrices a get_instances record carries: the static record holds one bare
\* matrix, the motion-blurred one a list.
NumMatrices(rec) == IF "matrix" \in DOMAIN rec THEN 1 ELSE Len(rec.matrices)

CallsOf(op) == SelectSeq(calls, LAMBDA c : c.op = op)

\* C1: every record get_instances returns carries exactly 1 matrix without
\* object motion blur and exactly 2 with it, whatever dupli lists the host
\* generates at shutter-open and shutter-close.
C1_MatrixCount ==
    (fn = "get_instances" /\ pc = "done") =>
        \A m \in 1..Len(result) :
            NumMatrices(result[m]) = IF ob_mblur_enabled(scn) THEN 2 ELSE 1

\* get_instances returned motion-blurred records from a scene whose dupli
\* list is shorter at shutter-close than at shutter-open.
C1_ShrinkingListReturned ==
    /\ fn = "get_instances"
    /\ pc = "done"
    /\ ob_mblur_enabled(scn)
    /\ scn.dupli_len[scn.shutter_close] < scn.dupli_len[scn.shutter_open]

\* C2: whenever sample_mblur or sample_psys_mblur returns, on every return
\* path, the host is at the frame it was at when the function was called.
C2_FrameRestored ==
    pc \in {"sm_ret", "psm_ret", "psm_ret_false"} => HostTime = entry.t

\* sample_psys_mblur returned early from a system without particles while the
\* shutter opens after the start of the frame.
C2_EarlyReturn ==
    /\ pc = "psm_ret_false"
    /\ scn.shutter_open # 0

\* C3: every read of ob.dupli_list happens between a dupli_list_create and
\* the next dupli_list_clear, creates and clears alternate, every create is
\* matched by a later clear once the call has ended, and the list is cleared
\* when the function returns.
C3_DupliListDiscipline ==
    /\ \A i \in 1..Len(calls) :
          /\ calls[i].op = "read" => calls[i].st = "created"
          /\ calls[i].op = "create" => calls[i].st = "cleared"
          /\ calls[i].op = "clear" => calls[i].st = "created"
    /\ pc \in {"done", "raised"} =>
          /\ dupli_state = "cleared"
          /\ Len(CallsOf("create")) = Len(CallsOf("clear"))

\* A call ended by an exception raised between a create and its clear.
C3_RaisedWhileCreated ==
    /\ pc = "raised"
    /\ dupli_state = "created"

\* C4: get_instances generates the dupli list once, at the unchanged frame,
\* without motion blur; with it twice, after the frame was set to
\* shutter-open and then to shutter-close, and record m holds the matrices of
\* dupli m at shutter-open and at shutter-close, in that order.
C4_SamplingProtocol ==
    (fn = "get_instances" /\ pc = "done") =>
        IF ~ob_mblur_enabled(scn)
        THEN /\ Len(CallsOf("create")) = 1
             /\ CallsOf("create")[1].t = T0
             /\ Len(CallsOf("frame_set")) = 0
        ELSE /\ Len(CallsOf("create")) = 2
             /\ CallsOf("create")[1].t = T0 + scn.shutter_open
             /\ CallsOf("create")[2].t = T0 + scn.shutter_close
             /\ calls[1].op = "frame_set" /\ calls[2].op = "create"
             /\ calls[5].op = "frame_set" /\ calls[6].op = "create"
             /\ \A m \in 1..Len(result) :
                   result[m].matrices =
                     << [src |-> "dupli", idx |-> m - 1, t |-> T0 + scn.shutter_open],
                        [src |-> "dupli", idx |-> m - 1, t |-> T0 + scn.shutter_close] >>

\* C9: every entry get_psys_instances returns has exactly 1 matrix without
\* object motion blur and exactly 2 with it, for emitter and hair systems and
\* for every pair of shutter values, equal ones included.
C9_PsysMatrixCount ==
    (fn = "get_psys_instances" /\ pc = "done") =>
        \A key \in DOMAIN result :
            Len(result[key].matrices) = IF ob_mblur_enabled(scn) THEN 2 ELSE 1

\* get_psys_instances returned motion-blurred entries sampled with the
\* shutter opening and closing at the same subframe.
C9_EqualShutterReturned ==
    /\ fn = "get_psys_instances"
    /\ pc = "done"
    /\ ob_mblur_enabled(scn)
    /\ scn.shutter_open = scn.shutter_close
    /\ DOMAIN result # {}

\* Particles of the rendered systems before modifier k.
StartOf(k) == Len(PsysDuplis(scn, k - 1, T0))

\* Position (from 0) of particle p among the particles of modifier k.
RankOf(k, p) ==
    LET ps == SelectParticles(scn.modifiers[k])
    IN (CHOOSE i \in 1..Len(ps) : ps[i] = p) - 1

\* C10: for hair systems get_psys_instances maps particle i of each rendered
\* system, the first and every later one, to the instanced object and to
\* copies of the matrix of dupli entry start + i, start being the number of
\* particles of the preceding rendered systems.
C10_HairVerbatim ==
    (fn = "get_psys_instances" /\ pc = "done") =>
        \A key \in DOMAIN result :
            scn.modifiers[key[1]].type_psys = "HAIR" =>
                /\ result[key].object = key[1]
                /\ \A j \in 1..Len(result[key].matrices) :
                      /\ result[key].matrices[j].src = "dupli"
                      /\ result[key].matrices[j].idx = StartOf(key[1]) + RankOf(key[1], key[2])

\* get_psys_instances returned an entry of a hair system that follows
\* another rendered system with particles.
C10_LaterHairSystemReturned ==
    /\ fn = "get_psys_instances"
    /\ pc = "done"
    /\ \E key \in DOMAIN result :
          /\ scn.modifiers[key[1]].type_psys = "HAIR"
          /\ StartOf(key[1]) > 0

(* ------------------------- object translators -------------------------- *)

\* Key times a caller passes: 0 .. MaxTime, 0 being time 0.0.
MaxTime == 1
\* World matrices the host object takes: 1 .. MaxMatrix.
MaxMatrix == 2
\* Most instances counted by add_instance.
MaxInstances == 2

Times == 0..MaxTime
WorldMatrices == 1..MaxMatrix

\* Translator._convert_matrix: the host matrix as a renderer transform.
ConvertMatrix(m) == <<"asr.Transformd", m>>

\* asr.TransformSequence(): no samples.
TransformSequence == [t \in {} |-> 0]

\* TransformSequence.set_transform(time, xform): the sample at time is
\* replaced, or added when there is none.
SetTransform(seq, time, xform) ==
    [t \in (DOMAIN seq) \cup {time} |-> IF t = time THEN xform ELSE seq[t]]

RECURSIVE SortedTimes(_)
SortedTimes(S) ==
    IF S = {} THEN << >>
    ELSE LET lo == CHOOSE x \in S : \A y \in S : x <= y
         IN <<lo>> \o SortedTimes(S \ {lo})

\* A key equal to both its neighbours is dropped, from the left.
RECURSIVE Prune(_, _, _)
Prune(seq, ts, i) ==
    IF i + 2 > Len(ts) THEN ts
    ELSE IF seq[ts[i]] = seq[ts[i + 1]] /\ seq[ts[i + 1]] = seq[ts[i + 2]]
         THEN Prune(seq, SubSeq(ts, 1, i) \o SubSeq(ts, i + 2, Len(ts)), i)
         ELSE Prune(seq, ts, i + 1)

\* TransformSequence.optimize(): redundant keys are removed, and two equal
\* keys collapse to one static transform.
Optimize(seq) ==
    LET ts == Prune(seq, SortedTimes(DOMAIN seq), 1)
        kept == IF Len(ts) = 2 /\ seq[ts[1]] = seq[ts[2]] THEN <<ts[1]>> ELSE ts
    IN [t \in {kept[i] : i \in 1..Len(kept)} |-> seq[t]]

\* appleseed_name + "_ass_inst", appleseed_name + "_ass"
AssInstName(name) == <<name, "_ass_inst">>
AssemblyName(name) == <<name, "_ass">>

\* assembly.assembly_instances().get_by_name(name): position of the entity.
GetByName(insts, name) == CHOOSE i \in 1..Len(insts) : insts[i].name = name

\* What the translator's handle __ass_inst reaches in the target assembly:
\* the entity fetched back with get_by_name, and nothing otherwise.
Registered ==
    IF tr.ass_inst = "registered"
    THEN {GetByName(assembly.assembly_instances, AssInstName(tr.appleseed_name))}
    ELSE {}

Hist(op, arg, outcome, keys, only) ==
    [op |-> op, arg |-> arg, outcome |-> outcome, keys |-> keys, only_keys |-> only]

\* ObjectTranslator.add_instance
add_instance ==
    /\ tr.kind # "none"
    /\ tr.num_instances < MaxInstances
    /\ tr' = [tr EXCEPT !.num_instances = @ + 1]
    /\ xl_hist' = Hist("add_instance", 0, "ok", xl_hist.keys, xl_hist.only_keys)
    /\ UNCHANGED <<bl_obj, assembly, detached, asr_calls, instVars, utilVars>>

\* set_transform_key written against time 0.0 whatever the time passed.
set_transform_key_time0(time) ==
    /\ tr.kind # "none"
    /\ tr' = [tr EXCEPT !.xform_seq =
                SetTransform(@, 0, ConvertMatrix(bl_obj.matrix_world))]
    /\ xl_hist' = Hist("set_transform_key", time, "ok",
                       IF xl_hist.only_keys THEN xl_hist.keys \cup {time} ELSE {},
                       xl_hist.only_keys)
    /\ UNCHANGED <<bl_obj, assembly, detached, asr_calls, instVars, utilVars>>

\* ObjectTranslator.set_transform_key(time, key_times)
set_transform_key(time) ==
    /\ tr.kind # "none"
    /\ tr' = [tr EXCEPT !.xform_seq =
                SetTransform(@, time, ConvertMatrix(bl_obj.matrix_world))]
    /\ xl_hist' = Hist("set_transform_key", time, "ok",
                       IF xl_hist.only_keys THEN xl_hist.keys \cup {time} ELSE {},
                       xl_hist.only_keys)
    /\ UNCHANGED <<bl_obj, assembly, detached, asr_calls, instVars, utilVars>>

\* InstanceTranslator.create_entities / ArchiveTranslator.create_entities
create_entities ==
    /\ tr.kind # "none"
    /\ tr' = [tr EXCEPT !.xform_seq =
                SetTransform(@, 0, ConvertMatrix(bl_obj.matrix_world))]
    /\ xl_hist' = Hist("create_entities", 0, "ok", {}, FALSE)
    /\ UNCHANGED <<bl_obj, assembly, detached, asr_calls, instVars, utilVars>>

\* InstanceTranslator.flush_entities, called once per export.
instance_flush_entities ==
    /\ tr.kind = "Instance"
    /\ tr.ass_inst = "absent"
    /\ LET seq == Optimize(tr.xform_seq)
           inst == [name |-> AssInstName(tr.appleseed_name),
                    assembly_name |-> AssemblyName(tr.master),
                    transform_sequence |-> seq]
       IN /\ tr' = [tr EXCEPT !.xform_seq = seq, !.ass_inst = "registered"]
          /\ assembly' = [assembly EXCEPT !.assembly_instances = Append(@, inst)]
    /\ asr_calls' = asr_calls \o <<"optimize", "AssemblyInstance",
                                   "set_transform_sequence",
                                   "insert_assembly_instance", "get_by_name">>
    /\ xl_hist' = Hist("flush_entities", 0, "ok", {}, FALSE)
    /\ UNCHANGED <<bl_obj, detached, instVars, utilVars>>

\* ArchiveTranslator.flush_entities, called once per export.  The handle
\* __ass_inst keeps the wrapper whose entity the container took over.
archive_flush_entities ==
    /\ tr.kind = "Archive"
    /\ tr.ass_inst = "absent"
    /\ LET ass == [model |-> "archive_assembly",
                   name |-> AssemblyName(tr.appleseed_name),
                   params |-> <<"filename", tr.archive_path>>]
           inst == [name |-> AssInstName(tr.appleseed_name),
                    assembly_name |-> AssemblyName(tr.appleseed_name),
                    transform_sequence |-> tr.xform_seq]
       IN /\ assembly' = [assemblies |-> Append(assembly.assemblies, ass),
                          assembly_instances |->
                              Append(assembly.assembly_instances, inst)]
          /\ detached' = tr.xform_seq
    /\ tr' = [tr EXCEPT !.ass_inst = "released"]
    /\ asr_calls' = asr_calls \o <<"Assembly", "AssemblyInstance",
                                   "set_transform_sequence", "insert_assembly",
                                   "insert_assembly_instance">>
    /\ xl_hist' = Hist("flush_entities", 0, "ok", {}, FALSE)
    /\ UNCHANGED <<bl_obj, instVars, utilVars>>

\* update that returns quietly when the handle is absent.
update_guarded(m) ==
    /\ tr.kind # "none"
    /\ tr.ass_inst = "absent"
    /\ xl_hist' = Hist("update", m, "ok", xl_hist.keys, xl_hist.only_keys)
    /\ UNCHANGED <<tr, bl_obj, assembly, detached, asr_calls, instVars, utilVars>>

\* update(obj), m being obj.matrix_world:
\*   self.__ass_inst.transform_sequence().set_transform(0.0, convert(m))
\* Without the attribute __ass_inst the lookup raises AttributeError.  A
\* handle fetched back from the container writes the registered entity.  A
\* handle whose entity the container took over no longer reaches it: the
\* call fails, or writes a sequence no assembly holds.
update(m) ==
    /\ tr.kind # "none"
    /\ \/ /\ tr.ass_inst = "absent"
          /\ xl_hist' = Hist("update", m, "AttributeError",
                             xl_hist.keys, xl_hist.only_keys)
          /\ UNCHANGED <<assembly, detached>>
       \/ /\ tr.ass_inst = "registered"
          /\ \E i \in Registered :
               assembly' = [assembly EXCEPT !.assembly_instances[i].transform_sequence =
                               SetTransform(@, 0, ConvertMatrix(m))]
          /\ xl_hist' = Hist("update", m, "ok", xl_hist.keys, xl_hist.only_keys)
          /\ UNCHANGED detached
       \/ /\ tr.ass_inst = "released"
          /\ xl_hist' = Hist("update", m, "error", xl_hist.keys, xl_hist.only_keys)
          /\ UNCHANGED <<assembly, detached>>
       \/ /\ tr.ass_inst = "released"
          /\ detached' = SetTransform(detached, 0, ConvertMatrix(m))
          /\ xl_hist' = Hist("update", m, "ok", xl_hist.keys, xl_hist.only_keys)
          /\ UNCHANGED assembly
    /\ UNCHANGED <<tr, bl_obj, asr_calls, instVars, utilVars>>

\* The host moves the object between translator calls.
host_edit(m) ==
    /\ tr.kind # "none"
    /\ m # bl_obj.matrix_world
    /\ bl_obj' = [bl_obj EXCEPT !.matrix_world = m]
    /\ xl_hist' = Hist("host_edit", m, "ok", xl_hist.keys, xl_hist.only_keys)
    /\ UNCHANGED <<tr, assembly, detached, asr_calls, instVars, utilVars>>

\* No instance enumeration runs while the translators are exercised.
InstIdle ==
    /\ scn = [kind |-> "none"]
    /\ frame_current = 1
    /\ frame_subframe = 0
    /\ dupli_state = "cleared"
    /\ dupli_list = << >>
    /\ fn = ""
    /\ pc = "off"
    /\ err = ""
    /\ result = << >>
    /\ matrices = << >>
    /\ frame_orig = 0
    /\ all_duplis = EmptyDict
    /\ current_total = 0
    /\ start = 0
    /\ index = 0
    /\ new_index = 0
    /\ mod_i = 1
    /\ particles = << >>
    /\ duplis = << >>
    /\ dupli_dict = EmptyDict
    /\ pending = {}
    /\ entry = [fn |-> "", t |-> 0]
    /\ calls = << >>

\* ObjectTranslator.__init__ then InstanceTranslator.__init__ or
\* ArchiveTranslator.__init__: an empty sequence, one instance, no handle.
InitTranslator ==
    /\ InstIdle
    /\ tr \in { [kind |-> "Instance", appleseed_name |-> "obj", master |-> "master",
                 archive_path |-> "", xform_seq |-> TransformSequence,
                 num_instances |-> 1, ass_inst |-> "absent"],
                [kind |-> "Archive", appleseed_name |-> "obj", master |-> "",
                 archive_path |-> "scene.appleseedz", xform_seq |-> TransformSequence,
                 num_instances |-> 1, ass_inst |-> "absent"] }
    /\ bl_obj \in [matrix_world : WorldMatrices]
    /\ assembly = [assemblies |-> << >>, assembly_instances |-> << >>]
    /\ detached = << >>
    /\ asr_calls = << >>
    /\ xl_hist = Hist("__init__", 0, "ok", {}, TRUE)
    /\ UtilIdle

NextTranslator ==
    \/ add_instance
    \/ \E time \in Times : set_transform_key(time)
    \/ create_entities
    \/ instance_flush_entities
    \/ archive_flush_entities
    \/ \E m \in WorldMatrices : update(m)
    \/ \E m \in WorldMatrices : host_edit(m)

SpecTranslator == InitTranslator /\ [][NextTranslator]_vars

(* ------------------------ claims: translators -------------------------- *)

\* C5: flush_entities of InstanceTranslator and of ArchiveTranslator
\* optimizes the transform sequence before the assembly instance is inserted
\* into the target assembly, and one flush inserts exactly one assembly
\* instance named <appleseed_name>_ass_inst.
C5_OptimizeBeforeInsert ==
    tr.ass_inst # "absent" =>
        /\ \E i, j \in 1..Len(asr_calls) :
              /\ i < j
              /\ asr_calls[i] = "optimize"
              /\ asr_calls[j] = "insert_assembly_instance"
        /\ Len(assembly.assembly_instances) = 1
        /\ assembly.assembly_instances[1].name = AssInstName(tr.appleseed_name)

\* An ArchiveTranslator was flushed.
C5_ArchiveFlushed ==
    /\ tr.kind = "Archive"
    /\ tr.ass_inst # "absent"

\* C6 as stated: update(obj) before flush_entities returns without raising
\* and leaves the transform sequence and the target assembly unchanged.
C6_UpdateBeforeFlushSilent ==
    [][(xl_hist'.op = "update" /\ tr.ass_inst = "absent") =>
          /\ xl_hist'.outcome = "ok"
          /\ tr' = tr
          /\ assembly' = assembly]_vars

\* C6 amended: update(obj) before flush_entities raises AttributeError (the
\* handle is absent) and leaves the transform sequence and the target
\* assembly unchanged.
C6_UpdateBeforeFlushRaises ==
    [][(xl_hist'.op = "update" /\ tr.ass_inst = "absent") =>
          /\ xl_hist'.outcome = "AttributeError"
          /\ tr' = tr
          /\ assembly' = assembly]_vars

\* update(obj) was called on a translator that holds samples and was never
\* flushed.
C6_UpdatedBeforeFlush ==
    /\ xl_hist.op = "update"
    /\ tr.ass_inst = "absent"
    /\ DOMAIN tr.xform_seq # {}

\* C7: after flush_entities every update(obj) leaves the number of
\* assemblies and assembly instances unchanged and sets the time-0.0
\* transform of the entity registered in the assembly to the converted world
\* matrix of obj, for InstanceTranslator and ArchiveTranslator.
C7_UpdateRewritesRegistered ==
    [][(xl_hist'.op = "update" /\ tr.ass_inst # "absent") =>
          /\ Len(assembly'.assemblies) = Len(assembly.assemblies)
          /\ Len(assembly'.assembly_instances) = Len(assembly.assembly_instances)
          /\ LET i == GetByName(assembly'.assembly_instances,
                                AssInstName(tr.appleseed_name))
             IN /\ 0 \in DOMAIN assembly'.assembly_instances[i].transform_sequence
                /\ assembly'.assembly_instances[i].transform_sequence[0] =
                     ConvertMatrix(xl_hist'.arg)]_vars

\* update(obj) was called on a flushed ArchiveTranslator.
C7_ArchiveUpdated ==
    /\ xl_hist.op = "update"
    /\ tr.kind = "Archive"
    /\ tr.ass_inst # "absent"

\* C8: set_transform_key(time, key_times) writes only the sample at time in
\* the translator's own sequence, the converted world matrix of the host
\* object; samples at other times, the instance count, the host object and
\* every assembly are unchanged, so that after calls with k distinct times
\* the sequence holds exactly k samples.
C8_SetTransformKeyLocal ==
    /\ [][xl_hist'.op = "set_transform_key" =>
            /\ DOMAIN tr'.xform_seq = (DOMAIN tr.xform_seq) \cup {xl_hist'.arg}
            /\ tr'.xform_seq[xl_hist'.arg] = ConvertMatrix(bl_obj.matrix_world)
            /\ \A t \in DOMAIN tr.xform_seq :
                  t # xl_hist'.arg => tr'.xform_seq[t] = tr.xform_seq[t]
            /\ tr'.num_instances = tr.num_instances
            /\ tr'.ass_inst = tr.ass_inst
            /\ bl_obj' = bl_obj
            /\ assembly' = assembly
            /\ detached' = detached]_vars
    /\ [](xl_hist.only_keys =>
            Cardinality(DOMAIN tr.xform_seq) = Cardinality(xl_hist.keys))

\* set_transform_key was called on a flushed InstanceTranslator whose
\* sequence holds a sample at every key time.
C8_KeySetAfterFlush ==
    /\ xl_hist.op = "set_transform_key"
    /\ tr.ass_inst = "registered"
    /\ DOMAIN tr.xform_seq = Times
    /\ \E t \in Times :
          t \notin DOMAIN assembly.assembly_instances[1].transform_sequence

\* =====================================================================
\* src/util.py: installation paths and the OSL shader catalogue
\* =====================================================================
MaxDepth == 3

\* os.path on component lists
Truthy(path) == path # EmptyPath

basename(path) ==
    IF path.parts = << >> THEN "" ELSE path.parts[Len(path.parts)]

dirname(path) ==
    IF path.parts = << >> THEN path
    ELSE [path EXCEPT !.parts = SubSeq(path.parts, 1, Len(path.parts) - 1)]

join(path, name) == [path EXCEPT !.parts = Append(path.parts, name)]

\* realpath(path): a relative path is resolved against the directory of
\* the .blend file or the working directory; an absolute one is kept.
realpath(path) ==
    IF path.abs THEN path
    ELSE [abs |-> TRUE, parts |-> <<"home">> \o path.parts]

get_appleseed_bin_dir ==
    IF Truthy(prefs) THEN realpath(prefs) ELSE prefs

\* what get_osl_search_paths returns once the walk has found the parent
OslSearchPaths(parent) ==
    [kind |-> "osl_search_paths",
     tool_dir |-> join(parent, "bin"),
     shader_directories |->
         << join(join(parent, "shaders"), "appleseed"),
            join(join(parent, "shaders"), "blenderseed") >>]

ULogged(ev, d, f) == Append(ulog, [ev |-> ev, dir |-> d, file |-> f])

\* def get_osl_search_paths(): line 72
gosp_start ==
    /\ upc = "idle"
    /\ ufn' = "get_osl_search_paths"
    /\ appleseed_parent_dir' = get_appleseed_bin_dir
    /\ upc' = "walk"
    /\ UNCHANGED <<envVars, uresult, ulog, nodes, dir_i, saved, python_path, timerVars, fovVars,
                   instVars, xlVars>>

\* def get_appleseed_parent_dir(): line 85
gapd_start ==
    /\ upc = "idle"
    /\ ufn' = "get_appleseed_parent_dir"
    /\ appleseed_parent_dir' = get_appleseed_bin_dir
    /\ upc' = "walk"
    /\ UNCHANGED <<envVars, uresult, ulog, nodes, dir_i, saved, python_path, timerVars, fovVars,
                   instVars, xlVars>>

\* one turn of "while os.path.basename(d) != 'bin': d = os.path.dirname(d)"
walk_up ==
    /\ upc = "walk"
    /\ basename(appleseed_parent_dir) # "bin"
    /\ appleseed_parent_dir' = dirname(appleseed_parent_dir)
    /\ UNCHANGED <<envVars, ufn, upc, uresult, ulog, nodes, dir_i, saved, python_path,
                   timerVars, fovVars, instVars, xlVars>>

\* get_osl_search_paths: loop exit, lines 75-81
gosp_ret ==
    /\ upc = "walk"
    /\ ufn = "get_osl_search_paths"
    /\ basename(appleseed_parent_dir) = "bin"
    /\ appleseed_parent_dir' = dirname(appleseed_parent_dir)
    /\ uresult' = OslSearchPaths(dirname(appleseed_parent_dir))
    /\ upc' = "done"
    /\ UNCHANGED <<envVars, ufn, ulog, nodes, dir_i, saved, python_path, timerVars, fovVars,
                   instVars, xlVars>>

\* get_appleseed_parent_dir: loop exit, lines 88-90
gapd_ret ==
    /\ upc = "walk"
    /\ ufn = "get_appleseed_parent_dir"
    /\ basename(appleseed_parent_dir) = "bin"
    /\ appleseed_parent_dir' = dirname(appleseed_parent_dir)
    /\ uresult' = [kind |-> "path", value |-> dirname(appleseed_parent_dir)]
    /\ upc' = "done"
    /\ UNCHANGED <<envVars, ufn, ulog, nodes, dir_i, saved, python_path, timerVars, fovVars,
                   instVars, xlVars>>

\* ---- read_osl_shaders ----
\* the dictionary built for one parameter of a shader, lines 171-204
ParamData(param) ==
    [name |-> param.name,
     type |-> param.type,
     connectable |-> IF param.has_input_socket
                     THEN param.as_blender_input_socket # 0
                     ELSE TRUE,
     hide_ui |-> IF param.has_widget /\ param.widget = "null"
                 THEN TRUE
                 ELSE ~param.validdefault,
     widget |-> IF param.has_widget THEN param.widget ELSE ""]

RECURSIVE ParamsOf(_, _)
ParamsOf(params, isoutput) ==
    IF params = << >> THEN << >>
    ELSE IF Head(params).isoutput = isoutput
         THEN <<ParamData(Head(params))>> \o ParamsOf(Tail(params), isoutput)
         ELSE ParamsOf(Tail(params), isoutput)

\* the dictionary built for one compiled shader, lines 152-211
NodeOf(file) ==
    [name |-> IF file.shader.has_node_name
              THEN file.shader.as_blender_node_name
              ELSE file.shader.shader_name,
     filename |-> file.stem,
     category |-> IF file.shader.has_category
                  THEN file.shader.as_blender_category
                  ELSE "other",
     inputs |-> ParamsOf(file.shader.params, FALSE),
     outputs |-> ParamsOf(file.shader.params, TRUE)]

\* "for file in os.listdir(shader_dir): if file.endswith('.oso')"
RECURSIVE NodesOf(_)
NodesOf(files) ==
    IF files = << >> THEN << >>
    ELSE IF Head(files).ext = "oso"
         THEN <<NodeOf(Head(files))>> \o NodesOf(Tail(files))
         ELSE NodesOf(Tail(files))

RECURSIVE OpensOf(_, _)
OpensOf(d, files) ==
    IF files = << >> THEN << >>
    ELSE IF Head(files).ext = "oso"
         THEN <<[ev |-> "open", dir |-> d, file |-> Head(files).stem]>>
              \o OpensOf(d, Tail(files))
         ELSE OpensOf(d, Tail(files))

\* read_osl_shaders without the test of line 135
read_osl_shaders_unchecked ==
    /\ upc = "idle"
    /\ ufn' = "read_osl_shaders"
    /\ nodes' = << >>
    /\ ulog' = ULogged("get_osl_search_paths", "", "")
    /\ appleseed_parent_dir' = get_appleseed_bin_dir
    /\ upc' = "walk"
    /\ UNCHANGED <<envVars, uresult, dir_i, saved, python_path, timerVars, fovVars, instVars, xlVars>>

\* def read_osl_shaders(): lines 133-139
read_osl_shaders ==
    /\ upc = "idle"
    /\ ufn' = "read_osl_shaders"
    /\ nodes' = << >>
    /\ IF ~Truthy(get_appleseed_bin_dir)
       THEN /\ ulog' = ULogged("warning", "", "")
            /\ uresult' = [kind |-> "nodes", value |-> << >>]
            /\ upc' = "done"
            /\ UNCHANGED appleseed_parent_dir
       ELSE /\ ulog' = ULogged("get_osl_search_paths", "", "")
            /\ appleseed_parent_dir' = get_appleseed_bin_dir
            /\ upc' = "walk"
            /\ UNCHANGED uresult
    /\ UNCHANGED <<envVars, dir_i, saved, python_path, timerVars, fovVars, instVars, xlVars>>

\* get_osl_search_paths returns into read_osl_shaders, line 139
ro_paths ==
    /\ upc = "walk"
    /\ ufn = "read_osl_shaders"
    /\ basename(appleseed_parent_dir) = "bin"
    /\ appleseed_parent_dir' = dirname(appleseed_parent_dir)
    /\ upc' = "ro_import"
    /\ UNCHANGED <<envVars, ufn, uresult, ulog, nodes, dir_i, saved, python_path, timerVars,
                   fovVars, instVars, xlVars>>

\* "import appleseed as asr; q = asr.ShaderQuery()", lines 141-143
ro_import ==
    /\ upc = "ro_import"
    /\ ulog' = ULogged("import appleseed", "", "")
    /\ dir_i' = 1
    /\ upc' = "ro_dir"
    /\ UNCHANGED <<envVars, ufn, uresult, appleseed_parent_dir, nodes, saved, python_path,
                   timerVars, fovVars, instVars, xlVars>>

\* one shader directory, lines 147-211
ro_dir ==
    /\ upc = "ro_dir"
    /\ dir_i <= Len(ShaderDirNames)
    /\ LET d == basename(OslSearchPaths(appleseed_parent_dir).shader_directories[dir_i])
       IN IF shader_fs[d].isdir
          THEN /\ nodes' = nodes \o NodesOf(shader_fs[d].files)
               /\ ulog' = ulog \o OpensOf(d, shader_fs[d].files)
          ELSE UNCHANGED <<nodes, ulog>>
    /\ dir_i' = dir_i + 1
    /\ UNCHANGED <<envVars, ufn, upc, uresult, appleseed_parent_dir, saved, python_path,
                   timerVars, fovVars, instVars, xlVars>>

\* lines 213-215
ro_ret ==
    /\ upc = "ro_dir"
    /\ dir_i > Len(ShaderDirNames)
    /\ ulog' = ULogged("debug", "", "")
    /\ uresult' = [kind |-> "nodes", value |-> nodes]
    /\ upc' = "done"
    /\ UNCHANGED <<envVars, ufn, appleseed_parent_dir, nodes, dir_i, saved, python_path,
                   timerVars, fovVars, instVars, xlVars>>

\* ---- the configurations explored ----
Components == {"bin", "appleseed"}

RECURSIVE PartsUpTo(_)
PartsUpTo(n) ==
    IF n = 0 THEN { << >> }
    ELSE LET shorter == PartsUpTo(n - 1)
         IN shorter \cup { Append(q, c) : q \in shorter, c \in Components }

ConfiguredPaths ==
    { [abs |-> a, parts |-> q] : a \in BOOLEAN, q \in PartsUpTo(MaxDepth) }

ShaderParams ==
    { [name |-> "in_color", type |-> "color", validdefault |-> vd, isoutput |-> FALSE,
       has_widget |-> w # "", widget |-> w,
       has_input_socket |-> FALSE, as_blender_input_socket |-> 1] :
         vd \in BOOLEAN, w \in {"", "null"} }
    \cup
    { [name |-> "out_color", type |-> "closure color", validdefault |-> TRUE,
       isoutput |-> TRUE, has_widget |-> FALSE, widget |-> "",
       has_input_socket |-> FALSE, as_blender_input_socket |-> 1] }
    \cup
    { [name |-> "in_mode", type |-> "int", validdefault |-> TRUE, isoutput |-> FALSE,
       has_widget |-> FALSE, widget |-> "",
       has_input_socket |-> TRUE, as_blender_input_socket |-> v] : v \in {0, 1} }

ShaderFiles ==
    { [stem |-> "as_glass", ext |-> "oso",
       shader |-> [shader_name |-> "as_glass", has_node_name |-> m,
                   as_blender_node_name |-> "asGlass", has_category |-> m,
                   as_blender_category |-> "shader", params |-> <<q>>]] :
         m \in BOOLEAN, q \in ShaderParams }
    \cup { [stem |-> "readme", ext |-> "txt",
            shader |-> [shader_name |-> "", has_node_name |-> FALSE,
                        as_blender_node_name |-> "", has_category |-> FALSE,
                        as_blender_category |-> "", params |-> << >>]] }

ShaderDirs ==
    { [isdir |-> FALSE, files |-> << >>], [isdir |-> TRUE, files |-> << >>] }
    \cup { [isdir |-> TRUE, files |-> <<f>>] : f \in ShaderFiles }

InitOsl ==
    /\ InstIdle
    /\ XlIdle
    /\ TimerIdle
    /\ FovIdle
    /\ UctlIdle
    /\ upc = "idle"
    /\ prefs \in ConfiguredPaths
    /\ environ = [has_python_path |-> FALSE, APPLESEED_PYTHON_PATH |-> EmptyPath,
                  PATH |-> << >>]
    /\ platform_system = "Linux"
    /\ sys_path = << >>
    /\ shader_fs \in [{"appleseed", "blenderseed"} -> ShaderDirs]

NextOsl ==
    \/ gosp_start
    \/ gapd_start
    \/ walk_up
    \/ gosp_ret
    \/ gapd_ret
    \/ read_osl_shaders
    \/ ro_paths
    \/ ro_import
    \/ ro_dir
    \/ ro_ret

SpecOsl == InitOsl /\ [][NextOsl]_vars

\* ---------------------------------------------------------------------
\* C11: with no renderer binary directory configured, read_osl_shaders
\* has returned the empty list, and the warning is the only thing it did:
\* it computed no search paths, imported no bindings and opened no file.
C11_UnconfiguredReturnsEmpty ==
    (ufn = "read_osl_shaders" /\ ~Truthy(prefs)) =>
        /\ upc = "done"
        /\ uresult = [kind |-> "nodes", value |-> << >>]
        /\ ulog = << [ev |-> "warning", dir |-> "", file |-> ""] >>

\* the unconfigured call has returned although a compiled shader is on disk
C11_UnconfiguredCalled ==
    /\ ufn = "read_osl_shaders"
    /\ ~Truthy(prefs)
    /\ upc = "done"
    /\ \E f \in ShaderFiles :
          /\ f.ext = "oso"
          /\ shader_fs["appleseed"] = [isdir |-> TRUE, files |-> <<f>>]

\* ---------------------------------------------------------------------
\* C14: for a non-empty configured path, get_osl_search_paths and
\* get_appleseed_parent_dir terminate (every turn of the upward walk either
\* is at a component named 'bin' or moves to a strictly shorter path) and,
\* once done, have returned the parent of the nearest 'bin' component.
HasBin(path) == \E i \in 1..Len(path.parts) : path.parts[i] = "bin"

NearestBinParent(path) ==
    LET i == CHOOSE k \in 1..Len(path.parts) :
                 /\ path.parts[k] = "bin"
                 /\ \A j \in (k + 1)..Len(path.parts) : path.parts[j] # "bin"
    IN [path EXCEPT !.parts = SubSeq(path.parts, 1, i - 1)]

C14_WalkTerminates ==
    (ufn \in {"get_osl_search_paths", "get_appleseed_parent_dir"} /\ Truthy(prefs)) =>
        /\ (upc = "walk" /\ basename(appleseed_parent_dir) # "bin") =>
               dirname(appleseed_parent_dir) # appleseed_parent_dir
        /\ (upc = "done" /\ ufn = "get_appleseed_parent_dir") =>
               uresult = [kind |-> "path",
                          value |-> NearestBinParent(realpath(prefs))]
        /\ (upc = "done" /\ ufn = "get_osl_search_paths") =>
               uresult = OslSearchPaths(NearestBinParent(realpath(prefs)))

\* =====================================================================
\* src/util.py: calc_fov
\* =====================================================================
\* An angle a in (0, pi) is held by half_tan = tan(a / 2), an exact
\* fraction <<n, d>> in lowest terms: tan(a / 2) reads it, 2 * atan(x) is
\* the angle whose half-tangent is x, and degrees() keeps the angle and
\* marks the unit.  Floating-point rounding is not modelled.
MaxTan == 3
MaxRes == 4

RECURSIVE Gcd(_, _)
Gcd(a, b) == IF b = 0 THEN a ELSE Gcd(b, a % b)

Frac(n, d) == << n \div Gcd(n, d), d \div Gcd(n, d) >>

FracDiv(x, y) == Frac(x[1] * y[2], x[2] * y[1])

tan_half(angle) == angle.half_tan

twice_atan(x) == [half_tan |-> x]

degrees(angle) == [kind |-> "degrees", angle |-> angle]

\* line 305: length = 18.0 / tan(camera_ob.data.angle / 2)
FovLength(cam) == FracDiv(Frac(18, 1), tan_half(cam.angle))

\* line 306: 2 * atan(18.0 * width / height / length)
CorrectedAngle(cam) ==
    twice_atan(FracDiv(FracDiv(Frac(18 * cam.width, 1), Frac(cam.height, 1)),
                       FovLength(cam)))

\* calc_fov with the test of line 304 the other way round
calc_fov_wide ==
    /\ fov = [kind |-> "none"]
    /\ fov' = IF camera.width > camera.height
              THEN degrees(CorrectedAngle(camera))
              ELSE degrees(camera.angle)
    /\ UNCHANGED <<camera, envVars, uctlVars, timerVars, instVars, xlVars>>

\* def calc_fov(camera_ob, width, height): lines 303-308
calc_fov ==
    /\ fov = [kind |-> "none"]
    /\ fov' = IF camera.width < camera.height
              THEN degrees(CorrectedAngle(camera))
              ELSE degrees(camera.angle)
    /\ UNCHANGED <<camera, envVars, uctlVars, timerVars, instVars, xlVars>>

Cameras ==
    { [angle |-> [half_tan |-> Frac(n, d)], width |-> w, height |-> h] :
         n \in 1..MaxTan, d \in 1..MaxTan, w \in 1..MaxRes, h \in 1..MaxRes }

InitFov ==
    /\ InstIdle
    /\ XlIdle
    /\ EnvIdle
    /\ UctlIdle
    /\ upc = "off"
    /\ TimerIdle
    /\ camera \in Cameras
    /\ fov = [kind |-> "none"]

NextFov ==
    \/ calc_fov

SpecFov == InitFov /\ [][NextFov]_vars

\* ---------------------------------------------------------------------
\* C12: calc_fov returns the camera's own angle in degrees whenever
\* width >= height and the corrected angle only when width < height; at
\* width = height the corrected formula gives the camera's own angle, so
\* the result is continuous across the branch.
C12_FovBranches ==
    /\ (fov # [kind |-> "none"] /\ camera.width >= camera.height) =>
           fov = degrees(camera.angle)
    /\ (fov # [kind |-> "none"] /\ camera.width < camera.height) =>
           fov = degrees(CorrectedAngle(camera))
    /\ (camera.width = camera.height) =>
           CorrectedAngle(camera) = camera.angle

\* calc_fov has returned for a landscape frame of a camera whose corrected
\* angle would differ from its own
C12_LandscapeReturned ==
    /\ fov # [kind |-> "none"]
    /\ camera.width > camera.height
    /\ CorrectedAngle(camera) # camera.angle

\* =====================================================================
\* src/util.py: class Timer
\* =====================================================================
MaxClock == 2
MaxCalls == 4

\* datetime.datetime.now(): the clock, in seconds; it does not go backwards
now == clock

tick ==
    /\ clock < MaxClock
    /\ clock' = clock + 1
    /\ UNCHANGED <<timer, timer_hist, secs, envVars, uctlVars, upc, fovVars,
                   instVars, xlVars>>

Called(op) == Append(timer_hist, [op |-> op, at |-> now])

\* Timer(): __init__ calls self.start(), lines 596-597
Timer_init ==
    /\ timer_hist = << >>
    /\ timer' = [timer EXCEPT !.has_start = TRUE, !.start = now]
    /\ timer_hist' = Called("start")
    /\ UNCHANGED <<clock, secs, envVars, uctlVars, upc, fovVars, instVars, xlVars>>

\* def start(self): lines 599-600
Timer_start ==
    /\ timer_hist # << >>
    /\ Len(timer_hist) < MaxCalls
    /\ timer' = [timer EXCEPT !.has_start = TRUE, !.start = now]
    /\ timer_hist' = Called("start")
    /\ UNCHANGED <<clock, secs, envVars, uctlVars, upc, fovVars, instVars, xlVars>>

\* def stop(self): lines 602-603
Timer_stop ==
    /\ timer_hist # << >>
    /\ Len(timer_hist) < MaxCalls
    /\ timer' = [timer EXCEPT !.has_end = TRUE, !.end = now]
    /\ timer_hist' = Called("stop")
    /\ UNCHANGED <<clock, secs, envVars, uctlVars, upc, fovVars, instVars, xlVars>>

\* elapsed() returning start - end
Timer_elapsed_reversed ==
    /\ timer_hist # << >>
    /\ Len(timer_hist) < MaxCalls
    /\ secs' = IF timer.has_end
               THEN [kind |-> "seconds", value |-> timer.start - timer.end]
               ELSE [kind |-> "AttributeError", value |-> 0]
    /\ timer_hist' = Called("elapsed")
    /\ UNCHANGED <<timer, clock, envVars, uctlVars, upc, fovVars, instVars, xlVars>>

\* def elapsed(self): lines 605-607; self.__end does not exist before the
\* first stop()
Timer_elapsed ==
    /\ timer_hist # << >>
    /\ Len(timer_hist) < MaxCalls
    /\ secs' = IF timer.has_end
               THEN [kind |-> "seconds", value |-> timer.end - timer.start]
               ELSE [kind |-> "AttributeError", value |-> 0]
    /\ timer_hist' = Called("elapsed")
    /\ UNCHANGED <<timer, clock, envVars, uctlVars, upc, fovVars, instVars, xlVars>>

InitTimer ==
    /\ InstIdle
    /\ XlIdle
    /\ EnvIdle
    /\ UctlIdle
    /\ upc = "off"
    /\ FovIdle
    /\ TimerIdle

NextTimer ==
    \/ tick
    \/ Timer_init
    \/ Timer_start
    \/ Timer_stop
    \/ Timer_elapsed

SpecTimer == InitTimer /\ [][NextTimer]_vars

\* the position in the call history of the most recent call of op (0: none)
LastCall(op) ==
    IF \E i \in 1..Len(timer_hist) : timer_hist[i].op = op
    THEN CHOOSE i \in 1..Len(timer_hist) :
            /\ timer_hist[i].op = op
            /\ \A j \in (i + 1)..Len(timer_hist) : timer_hist[j].op # op
    ELSE 0

JustElapsed ==
    /\ timer_hist # << >>
    /\ timer_hist[Len(timer_hist)].op = "elapsed"

\* ---------------------------------------------------------------------
\* C13 as stated: elapsed(), called after any sequence of start() and
\* stop() calls with at least one stop(), returns the non-negative number
\* of seconds from the most recent start() to the most recent stop().
C13_ElapsedNonNegative ==
    (JustElapsed /\ LastCall("stop") > 0) =>
        /\ secs.kind = "seconds"
        /\ secs.value = timer_hist[LastCall("stop")].at
                          - timer_hist[LastCall("start")].at
        /\ secs.value >= 0

\* C13 amended: elapsed() after at least one stop() returns the clock
\* reading of the most recent stop() minus that of the most recent start();
\* the value is non-negative when that stop() came after that start(), and
\* is zero or negative when start() was called again after it.
C13_ElapsedSigned ==
    (JustElapsed /\ LastCall("stop") > 0) =>
        /\ secs.kind = "seconds"
        /\ secs.value = timer_hist[LastCall("stop")].at
                          - timer_hist[LastCall("start")].at
        /\ (LastCall("stop") > LastCall("start")) => secs.value >= 0
        /\ (LastCall("stop") < LastCall("start")) => secs.value <= 0

\* elapsed() has returned a negative number: start() was called a second
\* later than the last stop()
C13_RestartedThenElapsed ==
    /\ JustElapsed
    /\ LastCall("stop") > 0
    /\ LastCall("start") > LastCall("stop")
    /\ secs.kind = "seconds"
    /\ secs.value < 0

\* =====================================================================
\* src/util.py: load_appleseed_python_paths / unload_appleseed_python_paths
\* =====================================================================
MaxSysPath == 2

\* A string holding directories is a list of tokens: a directory, the
\* separator os.pathsep, or a character of a list's printed form.
Tok(kind) == [kind |-> kind, path |-> EmptyPath]

StrOf(path) == IF path = EmptyPath THEN << >> ELSE << [kind |-> "dir", path |-> path] >>

\* str.split(os.pathsep)
RECURSIVE Split(_)
Split(str) ==
    IF \A i \in 1..Len(str) : str[i] # Tok("sep") THEN << str >>
    ELSE LET i == CHOOSE k \in 1..Len(str) :
                     /\ str[k] = Tok("sep")
                     /\ \A j \in 1..(k - 1) : str[j] # Tok("sep")
         IN << SubSeq(str, 1, i - 1) >> \o Split(SubSeq(str, i + 1, Len(str)))

\* str(list): "['a', 'b']"
RECURSIVE ReprItems(_)
ReprItems(list) ==
    IF list = << >> THEN << >>
    ELSE << Tok("'") >> \o Head(list) \o << Tok("'") >>
         \o (IF Len(list) > 1 THEN << Tok(", ") >> ELSE << >>)
         \o ReprItems(Tail(list))

StrOfList(list) == << Tok("[") >> \o ReprItems(list) \o << Tok("]") >>

\* list.remove(x): the first occurrence goes
RemoveFirst(list, x) ==
    LET i == CHOOSE k \in 1..Len(list) :
                 /\ list[k] = x
                 /\ \A j \in 1..(k - 1) : list[j] # x
    IN SubSeq(list, 1, i - 1) \o SubSeq(list, i + 1, Len(list))

InList(list, x) == \E i \in 1..Len(list) : list[i] = x

\* find_python_path, lines 116-122, up to the call of
\* get_appleseed_parent_dir
find_python_path(after) ==
    IF environ.has_python_path
    THEN /\ python_path' = environ.APPLESEED_PYTHON_PATH
         /\ upc' = after
         /\ UNCHANGED appleseed_parent_dir
    ELSE /\ appleseed_parent_dir' = get_appleseed_bin_dir
         /\ upc' = "walk"
         /\ UNCHANGED python_path

\* def load_appleseed_python_paths(): line 94
load_appleseed_python_paths ==
    /\ upc = "idle"
    /\ ufn' = "load_appleseed_python_paths"
    /\ saved' = [sys_path |-> sys_path, PATH |-> environ.PATH]
    /\ find_python_path("load_apply")
    /\ UNCHANGED <<envVars, uresult, ulog, nodes, dir_i, timerVars, fovVars,
                   instVars, xlVars>>

\* def unload_appleseed_python_paths(): line 106
unload_appleseed_python_paths ==
    /\ upc = "loaded"
    /\ ufn' = "unload_appleseed_python_paths"
    /\ find_python_path("unload_apply")
    /\ UNCHANGED <<envVars, uresult, ulog, nodes, dir_i, saved, timerVars, fovVars,
                   instVars, xlVars>>

\* get_appleseed_parent_dir returns into find_python_path, line 120
fpp_ret ==
    /\ upc = "walk"
    /\ ufn \in {"load_appleseed_python_paths", "unload_appleseed_python_paths"}
    /\ basename(appleseed_parent_dir) = "bin"
    /\ appleseed_parent_dir' = dirname(appleseed_parent_dir)
    /\ python_path' = join(join(dirname(appleseed_parent_dir), "lib"), "python2.7")
    /\ upc' = IF ufn = "load_appleseed_python_paths" THEN "load_apply"
              ELSE "unload_apply"
    /\ UNCHANGED <<envVars, ufn, uresult, ulog, nodes, dir_i, saved, timerVars,
                   fovVars, instVars, xlVars>>

\* lines 95-102
load_apply ==
    /\ upc = "load_apply"
    /\ IF python_path # EmptyPath
       THEN /\ sys_path' = Append(sys_path, python_path)
            /\ IF platform_system = "Windows"
               THEN environ' = [environ EXCEPT !.PATH =
                                   @ \o << Tok("sep") >> \o StrOf(get_appleseed_bin_dir)]
               ELSE UNCHANGED environ
       ELSE UNCHANGED <<sys_path, environ>>
    /\ upc' = "loaded"
    /\ UNCHANGED <<prefs, platform_system, shader_fs, ufn, uresult, ulog,
                   appleseed_parent_dir, nodes, dir_i, saved, python_path,
                   timerVars, fovVars, instVars, xlVars>>

\* lines 108-112
unload_apply ==
    /\ upc = "unload_apply"
    /\ IF python_path # EmptyPath
       THEN /\ InList(sys_path, python_path)
            /\ sys_path' = RemoveFirst(sys_path, python_path)
            /\ IF platform_system = "Windows"
               THEN environ' = [environ EXCEPT !.PATH =
                                   LET list == Split(@)
                                   IN StrOfList(SubSeq(list, 1, Len(list) - 1))]
               ELSE UNCHANGED environ
       ELSE UNCHANGED <<sys_path, environ>>
    /\ upc' = "done"
    /\ UNCHANGED <<prefs, platform_system, shader_fs, ufn, uresult, ulog,
                   appleseed_parent_dir, nodes, dir_i, saved, python_path,
                   timerVars, fovVars, instVars, xlVars>>

\* ---- the environments explored ----
SitePackages == [abs |-> TRUE, parts |-> <<"site-packages">>]

RootPythonLib == [abs |-> TRUE, parts |-> <<"lib", "python2.7">>]

SystemDir == [abs |-> TRUE, parts |-> <<"windows">>]

RECURSIVE ListsUpTo(_, _)
ListsUpTo(S, n) ==
    IF n = 0 THEN { << >> }
    ELSE LET shorter == ListsUpTo(S, n - 1)
         IN shorter \cup { Append(q, x) : q \in shorter, x \in S }

InitPyPath ==
    /\ InstIdle
    /\ XlIdle
    /\ TimerIdle
    /\ FovIdle
    /\ UctlIdle
    /\ upc = "idle"
    /\ prefs \in ConfiguredPaths
    /\ environ \in { [has_python_path |-> h, APPLESEED_PYTHON_PATH |-> v, PATH |-> str] :
                        h \in BOOLEAN, v \in {EmptyPath, RootPythonLib},
                        str \in { << >>, StrOf(SystemDir),
                                  StrOf(SystemDir) \o << Tok("sep") >> \o StrOf(SitePackages) } }
    /\ ~environ.has_python_path => environ.APPLESEED_PYTHON_PATH = EmptyPath
    /\ platform_system \in {"Linux", "Windows"}
    /\ sys_path \in ListsUpTo({SitePackages, RootPythonLib}, MaxSysPath)
    /\ shader_fs = [d \in {"appleseed", "blenderseed"} |->
                      [isdir |-> FALSE, files |-> << >>]]

NextPyPath ==
    \/ load_appleseed_python_paths
    \/ unload_appleseed_python_paths
    \/ walk_up
    \/ fpp_ret
    \/ load_apply
    \/ unload_apply

SpecPyPath == InitPyPath /\ [][NextPyPath]_vars

\* ---------------------------------------------------------------------
\* C15: after load_appleseed_python_paths then
\* unload_appleseed_python_paths, sys.path has the entries it had before
\* the load in the same order and, on Windows, PATH has the value it had
\* before the load; the bindings path used is APPLESEED_PYTHON_PATH when
\* that variable is set and <parent>/lib/python2.7 otherwise.
BindingsPath ==
    IF environ.has_python_path THEN environ.APPLESEED_PYTHON_PATH
    ELSE join(join(NearestBinParent(realpath(prefs)), "lib"), "python2.7")

C15_LoadUnloadRoundTrip ==
    (ufn = "unload_appleseed_python_paths" /\ upc = "done") =>
        /\ python_path = BindingsPath
        /\ sys_path = saved.sys_path
        /\ platform_system = "Windows" => environ.PATH = saved.PATH

====
